---- MODULE Spec2Model ----
(***************************************************************************)
(* Bloch sphere view of vscode/src/webview/webview.tsx: the BlochSphere     *)
(* component (qubit state, applied-gate history, rendered equations) and    *)
(* the BlochRenderer animation queue (gateQueue, the processQueue closure   *)
(* driven by requestAnimationFrame, the trail, reset).                      *)
(*                                                                         *)
(* The complex algebra, the gate matrices and the Rotations class are       *)
(* imported by webview.tsx from ../src/cplx.js; they are modelled from the  *)
(* design document (sections 3, 4.1-4.3).                                   *)
(*                                                                         *)
(* Numbers are exact: a real is (p + q*sqrt(2)) / 2^k, which is closed      *)
(* under every gate of the set {X, Y, Z, S, T, H} and every rotation the    *)
(* view requests.  Angles are counted in units of pi/4.  Progress values    *)
(* (x, t) are counted in thousandths.                                       *)
(***************************************************************************)
EXTENDS Integers, Sequences, FiniteSets, TLC

\* ------------------------------------------------------------------ bounds

\* Recognized gate requests in one behaviour (each creates one AppliedGate),
\* when the request may name any gate.
MaxGates == 2

\* Recognized gate requests in one behaviour, when the queue is explored.
MaxQueued == 3

\* Unrecognized gate requests in one behaviour.
MaxDiag == 1

\* Keyframes of one rotation path (the view constructs Rotations(64)).
PathSteps == 4

\* render(<App />) calls the page is followed through.
MaxRenders == 2

\* ------------------------------------------------------- program constants

rotationTimeMs == 750

\* The clock is observed on a grid of two fifths of the rotation time, so
\* that a gate is seen before, during and after its rotation time.
TickMs == (2 * rotationTimeMs) \div 5

\* ------------------------------------------------------------------- reals
\* <<p, q, k>> is (p + q*sqrt(2)) / 2^k, with k least.

RECURSIVE RNorm(_)
RNorm(r) ==
  IF r[3] > 0 /\ r[1] % 2 = 0 /\ r[2] % 2 = 0
  THEN RNorm(<<r[1] \div 2, r[2] \div 2, r[3] - 1>>)
  ELSE r

RInt(n) == <<n, 0, 0>>

RSqrtHalf == <<0, 1, 1>>

RNeg(a) == <<0 - a[1], 0 - a[2], a[3]>>

RAdd(a, b) ==
  LET K == IF a[3] > b[3] THEN a[3] ELSE b[3]
      ea == 2 ^ (K - a[3])
      eb == 2 ^ (K - b[3])
  IN RNorm(<<a[1] * ea + b[1] * eb, a[2] * ea + b[2] * eb, K>>)

RSub(a, b) == RAdd(a, RNeg(b))

RMul(a, b) ==
  RNorm(<<a[1] * b[1] + 2 * a[2] * b[2], a[1] * b[2] + a[2] * b[1], a[3] + b[3]>>)

\* ----------------------------------------------------------- complex algebra

cplx(re, im) == [re |-> re, im |-> im]

CAdd(a, b) == cplx(RAdd(a.re, b.re), RAdd(a.im, b.im))

CMul(a, b) ==
  cplx(RSub(RMul(a.re, b.re), RMul(a.im, b.im)),
       RAdd(RMul(a.re, b.im), RMul(a.im, b.re)))

CConj(a) == cplx(a.re, RNeg(a.im))

CZero == cplx(RInt(0), RInt(0))
COne == cplx(RInt(1), RInt(0))
CNegOne == cplx(RInt(-1), RInt(0))
CI == cplx(RInt(0), RInt(1))
CNegI == cplx(RInt(0), RInt(-1))
CSqrtHalf == cplx(RSqrtHalf, RInt(0))

\* ------------------------------------------------ qubit state, gate matrices

vec2(v) == <<v[1], v[2]>>

Ket0 == <<COne, CZero>>

PauliX == <<<<CZero, COne>>, <<COne, CZero>>>>
PauliY == <<<<CZero, CNegI>>, <<CI, CZero>>>>
PauliZ == <<<<COne, CZero>>, <<CZero, CNegOne>>>>
SGate == <<<<COne, CZero>>, <<CZero, CI>>>>
TGate == <<<<COne, CZero>>, <<CZero, cplx(RSqrtHalf, RSqrtHalf)>>>>
Hadamard ==
  <<<<CSqrtHalf, CSqrtHalf>>, <<CSqrtHalf, cplx(RNeg(RSqrtHalf), RInt(0))>>>>

mulVec2(m, v) ==
  <<CAdd(CMul(m[1][1], v[1]), CMul(m[1][2], v[2])),
    CAdd(CMul(m[2][1], v[1]), CMul(m[2][2], v[2]))>>

\* The point of the Bloch sphere a state (a, b) stands for:
\* (2 Re(conj(a) b), 2 Im(conj(a) b), |a|^2 - |b|^2).
BlochVector(v) ==
  LET ab == CMul(CConj(v[1]), v[2])
      na == CMul(CConj(v[1]), v[1])
      nb == CMul(CConj(v[2]), v[2])
  IN <<RMul(RInt(2), ab.re), RMul(RInt(2), ab.im), RSub(na.re, nb.re)>>

\* ------------------------------------------------------ rotation path engine
\* A rotation of the sphere is a 3x3 matrix over the lab-frame axes
\* (x, y, z) of the Bloch sphere; the north pole (0,0,1) is the position of
\* Ket0.

Identity3 ==
  [i \in 1..3 |-> [j \in 1..3 |-> IF i = j THEN RInt(1) ELSE RInt(0)]]

NorthPole == <<RInt(0), RInt(0), RInt(1)>>

MatMul3(a, b) ==
  [i \in 1..3 |-> [j \in 1..3 |->
     RAdd(RAdd(RMul(a[i][1], b[1][j]), RMul(a[i][2], b[2][j])),
          RMul(a[i][3], b[3][j]))]]

MatVec3(a, v) ==
  [i \in 1..3 |->
     RAdd(RAdd(RMul(a[i][1], v[1]), RMul(a[i][2], v[2])), RMul(a[i][3], v[3]))]

\* cos and sin of a * pi/4.
Cos(a) ==
  CASE a % 8 = 0 -> RInt(1)
    [] a % 8 \in {1, 7} -> RSqrtHalf
    [] a % 8 \in {2, 6} -> RInt(0)
    [] a % 8 \in {3, 5} -> RNeg(RSqrtHalf)
    [] OTHER -> RInt(-1)

Sin(a) == Cos(a + 6)

AxisVector(axis) ==
  CASE axis = "X" -> <<RInt(1), RInt(0), RInt(0)>>
    [] axis = "Y" -> <<RInt(0), RInt(1), RInt(0)>>
    [] axis = "Z" -> <<RInt(0), RInt(0), RInt(1)>>
    [] axis = "H" -> <<RSqrtHalf, RInt(0), RSqrtHalf>>

\* The rotation by angle about a unit axis n (Rodrigues):
\* cos * I + sin * [n]x + (1 - cos) * n n^T.
RotationMatrix(axis, angle) ==
  LET n == AxisVector(axis)
      c == Cos(angle)
      s == Sin(angle)
      K == <<<<RInt(0), RNeg(n[3]), n[2]>>,
             <<n[3], RInt(0), RNeg(n[1])>>,
             <<RNeg(n[2]), n[1], RInt(0)>>>>
  IN [i \in 1..3 |-> [j \in 1..3 |->
        RAdd(RAdd(IF i = j THEN c ELSE RInt(0), RMul(s, K[i][j])),
             RMul(RSub(RInt(1), c), RMul(n[i], n[j])))]]

\* An orientation is held as the rotations composed so far, first to last,
\* each [axis, angle] about a lab-frame axis; OrientationMatrix multiplies
\* them out.
IdentityOrientation == <<>>

Compose(orientation, axis, angle) ==
  Append(orientation, [axis |-> axis, angle |-> angle])

RECURSIVE OrientationMatrix(_)
OrientationMatrix(o) ==
  IF o = <<>> THEN Identity3
  ELSE MatMul3(RotationMatrix(o[Len(o)].axis, o[Len(o)].angle),
               OrientationMatrix(SubSeq(o, 1, Len(o) - 1)))

\* A published orientation: the spherical interpolation from one
\* orientation to another at progress t (thousandths).  An exact
\* orientation m is the interpolation from m to m.
Quaternion(m) == [from |-> m, to |-> m, t |-> 0]

slerp(from, to, t) ==
  CASE t <= 0 -> Quaternion(from)
    [] t >= 1000 -> Quaternion(to)
    [] OTHER -> [from |-> from, to |-> to, t |-> t]

\* The rotation engine: the current orientation, the number of applied
\* gates it has created, and the keyframes <<gate id, k>> that hold a
\* reference to a rendered marker.
NewRotations == [currPosition |-> IdentityOrientation, count |-> 0, refs |-> {}]

NoGate == [id |-> 0, axis |-> "none", angle |-> 0]

\* rotateX / rotateY / rotateZ / rotateH: a new applied gate.
RotationsRotate(rot, axis, angle) ==
  [gate |-> [id |-> rot.count + 1, axis |-> axis, angle |-> angle],
   rotations |-> [rot EXCEPT !.count = @ + 1]]

\* The orientation at progress t of a gate, the keyframes of its path up to
\* t, and the engine afterwards: t = 1 commits the target orientation.
getRotationAtPercent(rot, gate, t) ==
  LET from == rot.currPosition
      target == Compose(from, gate.axis, gate.angle)
      tc == IF t < 0 THEN 0 ELSE IF t > 1000 THEN 1000 ELSE t
      n == (tc * PathSteps) \div 1000
  IN [pos |-> slerp(from, target, tc),
      path |-> [k \in 1..n |->
                  [key |-> <<gate.id, k>>, ref |-> <<gate.id, k>> \in rot.refs]],
      rotations |-> IF tc >= 1000 THEN [rot EXCEPT !.currPosition = target]
                    ELSE rot]

RotationsReset(rot) ==
  [rot EXCEPT !.currPosition = IdentityOrientation, !.refs = {}]

\* -------------------------------------------------------------- the view

VARIABLES
  state,                \* BlochSphere: the qubit state
  gates,                \* BlochSphere: the applied-gate names shown
  gateArray,            \* BlochSphere: the rendered equations
  gateQueue,            \* BlochRenderer.gateQueue
  animationCallbackId,  \* BlochRenderer.animationCallbackId
  loops,                \* the processQueue closures with a frame callback pending
  rotations,            \* BlochRenderer.rotations
  trail,                \* BlochRenderer.trail: its children, in order
  qubitQuaternion,      \* BlochRenderer.qubit.quaternion
  now,                  \* performance.now()
  diagnostics,          \* console.error calls of rotate
  hist,                 \* what has happened to each applied gate
  lastOp,               \* the handler that ran last
  histogramData,        \* module variable histogramData: label -> count
  shotCount,            \* module variable shotCount
  showEstimates,        \* module variable showEstimates
  renders,              \* calls of render(<App />, document.body)
  logged,               \* the console call of the last onMessage
  message               \* event.data of the last message event

vars ==
  <<state, gates, gateArray, gateQueue, animationCallbackId, loops, rotations,
    trail, qubitQuaternion, now, diagnostics, hist, lastOp,
    histogramData, shotCount, showEstimates, renders, logged, message>>

\* The results page, which the view never touches.
page == <<histogramData, shotCount, showEstimates, renders, logged, message>>

\* The view, which onMessage never touches.
view ==
  <<state, gates, gateArray, gateQueue, animationCallbackId, loops, rotations,
    trail, qubitQuaternion, now, diagnostics, hist>>

GateNames == {"X", "Y", "Z", "S", "T", "H"}

\* The names passed to rotate: the six gates; two gates and a name that is
\* no gate; one gate.  The renderer never reads the axis or the angle of a
\* gate (it hands the gate to the rotation engine), so the view's handling
\* of an unknown name is explored with H and T, and the queue with H, the
\* gate of the composite axis.
GateInputs == GateNames

ViewInputs == {"H", "T", "U"}

QueueInputs == {"H"}

Put(f, k, v) == (k :> v) @@ f

Remove(f, k) == [x \in DOMAIN f \ {k} |-> f[x]]

SeqToSet(q) == {q[i] : i \in DOMAIN q}

RemoveAt(q, i) == SubSeq(q, 1, i - 1) \o SubSeq(q, i + 1, Len(q))

\* The renderer's mutable state as one value, for the handlers that call
\* one another.
Ren ==
  [gateQueue |-> gateQueue, animationCallbackId |-> animationCallbackId,
   loops |-> loops, rotations |-> rotations, trail |-> trail,
   qubitQuaternion |-> qubitQuaternion, hist |-> hist]

SetRen(R) ==
  /\ gateQueue' = R.gateQueue
  /\ animationCallbackId' = R.animationCallbackId
  /\ loops' = R.loops
  /\ rotations' = R.rotations
  /\ trail' = R.trail
  /\ qubitQuaternion' = R.qubitQuaternion
  /\ hist' = R.hist

NewHist ==
  [queued |-> <<>>, popped |-> <<>>, completed |-> <<>>,
   desc |-> <<>>, queuedAt |-> <<>>, ahead |-> <<>>, waited |-> {},
   poppedAt |-> <<>>, doneAt |-> <<>>, lastT |-> <<>>,
   firstPos |-> <<>>, donePos |-> <<>>, before |-> <<>>, after |-> <<>>,
   epochNames |-> <<>>, epochBase |-> 0]

\* easeInOutSine(x) = -(cos(pi x) - 1) / 2, in thousandths: exact at the
\* multiples of 1/6 and linear between them.
EaseKnots == <<0, 67, 250, 500, 750, 933, 1000>>

easeInOutSine(x) ==
  LET i == (x * 6) \div 1000
      f == x * 6 - i * 1000
  IN IF i >= 6 THEN 1000
     ELSE EaseKnots[i + 1] + ((EaseKnots[i + 2] - EaseKnots[i + 1]) * f) \div 1000

\* The handle requestAnimationFrame returns: never zero, and only tested
\* for being non-zero.
FrameHandle == 1

\* As QueueDone, leaving animationCallbackId set.
QueueDone_KeepId(R, i) == [R EXCEPT !.loops = RemoveAt(@, i)]

\* As QueueDone, requesting another frame.
QueueDone_Reschedule(R, i) == [R EXCEPT !.animationCallbackId = FrameHandle]

\* processQueue, the queue empty and no gate active: done.
QueueDone(R, i) ==
  [R EXCEPT !.animationCallbackId = 0, !.loops = RemoveAt(@, i)]

\* As RotationPercent, over half the rotation time.
RotationPercent_Half(clock, startTime) ==
  LET x == ((clock - startTime) * 2000) \div rotationTimeMs
  IN IF x < 1000 THEN easeInOutSine(x) ELSE 1000

\* processQueue: the eased percent of the rotation time elapsed.
RotationPercent(clock, startTime) ==
  LET x == ((clock - startTime) * 1000) \div rotationTimeMs
  IN IF x < 1000 THEN easeInOutSine(x) ELSE 1000

\* As DrawPath, without the test for a keyframe that has a marker.
DrawPath_Redraw(R, path) ==
  [R EXCEPT
     !.trail = @ \o [k \in 1..Len(path) |-> path[k].key],
     !.rotations.refs = @ \cup {path[k].key : k \in 1..Len(path)}]

\* processQueue: a marker for every keyframe of the path that has none.
DrawPath(R, path) ==
  LET fresh == SelectSeq(path, LAMBDA kf : ~kf.ref)
  IN [R EXCEPT
        !.trail = @ \o [k \in 1..Len(fresh) |-> fresh[k].key],
        !.rotations.refs = @ \cup {fresh[k].key : k \in 1..Len(fresh)}]

\* As GateDone, never true of a clamped t.
GateDone_Never(t) == t > 1000

\* processQueue: that gate is done (t in thousandths).
GateDone(t) == t >= 1000

\* One call of the processQueue closure loops[i] at time clock.
processQueue(R, i, clock) ==
  LET loop == R.loops[i]
      pop == loop.currentGate = NoGate
  IN IF pop /\ R.gateQueue = <<>> THEN QueueDone(R, i)
     ELSE
       LET currentGate == IF pop THEN Head(R.gateQueue) ELSE loop.currentGate
           startTime == IF pop THEN clock ELSE loop.startTime
           t == RotationPercent(clock, startTime)
           currentRotation == getRotationAtPercent(R.rotations, currentGate, t)
           id == currentGate.id
           R1 == [R EXCEPT
                    !.gateQueue = IF pop THEN Tail(@) ELSE @,
                    !.rotations = currentRotation.rotations]
           R2 == DrawPath(R1, currentRotation.path)
           h0 == [R.hist EXCEPT !.lastT = Put(@, id, t)]
           h1 == IF pop
                 THEN [h0 EXCEPT
                         !.popped = Append(@, id),
                         !.queuedAt = Remove(@, id),
                         !.waited = IF id \in DOMAIN R.hist.queuedAt
                                       /\ R.hist.queuedAt[id] < clock
                                    THEN @ \cup {id} ELSE @,
                         !.poppedAt = Put(@, id, clock),
                         !.firstPos = Put(@, id, currentRotation.pos)]
                 ELSE h0
           h2 == IF t >= 1000
                 THEN [h1 EXCEPT
                         !.completed = Append(@, id),
                         !.doneAt = Put(@, id, clock),
                         !.donePos = Put(@, id, currentRotation.pos)]
                 ELSE h1
       IN [R2 EXCEPT
             !.qubitQuaternion = currentRotation.pos,
             !.loops[i] = [currentGate |-> IF GateDone(t) THEN NoGate
                                            ELSE currentGate,
                           startTime |-> startTime],
             !.animationCallbackId = FrameHandle,
             !.hist = h2]

\* As queueGate, putting the gate at the head of the queue.
queueGate_Unshift(R, gate, clock) ==
  LET R1 == [R EXCEPT
               !.gateQueue = <<gate>> \o @,
               !.hist.queued = Append(@, gate.id),
               !.hist.desc = Put(@, gate.id, gate),
               !.hist.queuedAt = Put(@, gate.id, clock),
               !.hist.ahead = Put(@, gate.id, Len(R.hist.queued) - Len(R.hist.completed))]
  IN IF R1.animationCallbackId # 0 THEN R1
     ELSE processQueue(
            [R1 EXCEPT !.loops = Append(@, [currentGate |-> NoGate,
                                             startTime |-> 0])],
            Len(R1.loops) + 1, clock)

\* As queueGate, without the test for a running queue.
queueGate_NoGuard(R, gate, clock) ==
  LET R1 == [R EXCEPT
               !.gateQueue = Append(@, gate),
               !.hist.queued = Append(@, gate.id),
               !.hist.desc = Put(@, gate.id, gate),
               !.hist.queuedAt = Put(@, gate.id, clock),
               !.hist.ahead = Put(@, gate.id, Len(R.hist.queued) - Len(R.hist.completed))]
  IN processQueue(
       [R1 EXCEPT !.loops = Append(@, [currentGate |-> NoGate,
                                        startTime |-> 0])],
       Len(R1.loops) + 1, clock)

\* As queueGate, running the closure at once also when the queue is running.
queueGate_Kick(R, gate, clock) ==
  LET R1 == [R EXCEPT
               !.gateQueue = Append(@, gate),
               !.hist.queued = Append(@, gate.id),
               !.hist.desc = Put(@, gate.id, gate),
               !.hist.queuedAt = Put(@, gate.id, clock),
               !.hist.ahead = Put(@, gate.id, Len(R.hist.queued) - Len(R.hist.completed))]
  IN IF R1.animationCallbackId # 0 THEN processQueue(R1, 1, clock)
     ELSE processQueue(
            [R1 EXCEPT !.loops = Append(@, [currentGate |-> NoGate,
                                             startTime |-> 0])],
            Len(R1.loops) + 1, clock)

\* BlochRenderer.queueGate.
queueGate(R, gate, clock) ==
  LET R1 == [R EXCEPT
               !.gateQueue = Append(@, gate),
               !.hist.queued = Append(@, gate.id),
               !.hist.desc = Put(@, gate.id, gate),
               !.hist.queuedAt = Put(@, gate.id, clock),
               !.hist.ahead = Put(@, gate.id, Len(R.hist.queued) - Len(R.hist.completed))]
  IN IF R1.animationCallbackId # 0 THEN R1
     ELSE processQueue(
            [R1 EXCEPT !.loops = Append(@, [currentGate |-> NoGate,
                                             startTime |-> 0])],
            Len(R1.loops) + 1, clock)

\* BlochRenderer.rotateX / rotateY / rotateZ / rotateH.
RendererRotate(R, axis, angle, clock) ==
  LET made == RotationsRotate(R.rotations, axis, angle)
  IN queueGate([R EXCEPT !.rotations = made.rotations], made.gate, clock)

\* As RendererReset, without trail.clear().
RendererReset_KeepTrail(R) ==
  [R EXCEPT
     !.rotations = RotationsReset(@),
     !.qubitQuaternion = Quaternion(IdentityOrientation)]

\* As RendererReset, cancelling the pending frame callback.
RendererReset_Cancel(R) ==
  [R EXCEPT
     !.rotations = RotationsReset(@),
     !.trail = <<>>,
     !.qubitQuaternion = Quaternion(IdentityOrientation),
     !.animationCallbackId = 0,
     !.loops = <<>>]

\* BlochRenderer.reset (the camera and the controls are not modelled).
RendererReset(R) ==
  [R EXCEPT
     !.rotations = RotationsReset(@),
     !.trail = <<>>,
     !.qubitQuaternion = Quaternion(IdentityOrientation)]

\* As GateRotation, with S rotating like Z.
GateRotation_SAsZ(gate) ==
  CASE gate = "X" -> [axis |-> "X", angle |-> 4]
    [] gate = "Y" -> [axis |-> "Y", angle |-> 4]
    [] gate = "Z" -> [axis |-> "Z", angle |-> 4]
    [] gate = "S" -> [axis |-> "Z", angle |-> 4]
    [] gate = "T" -> [axis |-> "Z", angle |-> 1]
    [] gate = "H" -> [axis |-> "H", angle |-> 4]

\* BlochSphere.rotate: the renderer call of each case of the switch.
GateRotation(gate) ==
  CASE gate = "X" -> [axis |-> "X", angle |-> 4]
    [] gate = "Y" -> [axis |-> "Y", angle |-> 4]
    [] gate = "Z" -> [axis |-> "Z", angle |-> 4]
    [] gate = "S" -> [axis |-> "Z", angle |-> 2]
    [] gate = "T" -> [axis |-> "Z", angle |-> 1]
    [] gate = "H" -> [axis |-> "H", angle |-> 4]

\* BlochSphere.rotate: the matrix of each case of the switch.
GateMatrix(gate) ==
  CASE gate = "X" -> PauliX
    [] gate = "Y" -> PauliY
    [] gate = "Z" -> PauliZ
    [] gate = "S" -> SGate
    [] gate = "T" -> TGate
    [] gate = "H" -> Hadamard

\* BlochSphere.rotate: the cases of the switch.
KnownGate(gate) == gate \in {"X", "Y", "Z", "S", "T", "H"}

\* As RotateState, starting from Ket0 instead of the current state.
RotateState_FromKet0(gate, st) ==
  IF KnownGate(gate) THEN mulVec2(GateMatrix(gate), st) ELSE vec2(Ket0)

\* BlochSphere.rotate: the new state.
RotateState(gate, st) ==
  IF KnownGate(gate) THEN mulVec2(GateMatrix(gate), st) ELSE vec2(st)

\* The equation of one gate application.
getLaTeX(gateName, oldState, newState) ==
  [gateName |-> gateName, oldState |-> oldState, newState |-> newState]

\* -------------------------------------------------------- the results page

\* A JavaScript value of a message field: absent (undefined), a number, a
\* non-empty string, or an array of [label, count] pairs.
Absent == [type |-> "undefined"]

Number(n) == [type |-> "number", value |-> n]

Text == [type |-> "string"]

Array(items) == [type |-> "object", items |-> items]

\* The values of message.command: absent, the empty string, the two
\* commands and another name.
Commands == {"absent", "", "update", "estimate", "other"}

BucketLists ==
  {<<>>, <<<<"0", 1>>>>, <<<<"0", 1>>, <<"1", 2>>>>, <<<<"0", 1>>, <<"0", 2>>>>}

BucketValues == {Absent, Text} \cup {Array(b) : b \in BucketLists}

ShotCountValues == {Absent, Text} \cup {Number(n) : n \in 0..2}

Messages ==
  [command : Commands, buckets : BucketValues, shotCount : ShotCountValues]

NoMessage == [command |-> "absent", buckets |-> Absent, shotCount |-> Absent]

\* !v of a message field.
Falsy(v) == v.type = "undefined" \/ (v.type = "number" /\ v.value = 0)

\* new Map(buckets) throws unless buckets is iterable over entry objects.
MapThrows(buckets) == buckets.type # "object"

\* new Map(buckets): each pair is set in turn, a later one over an earlier.
RECURSIVE NewMap(_)
NewMap(items) ==
  IF items = <<>> THEN <<>>
  ELSE LET last == items[Len(items)]
       IN Put(NewMap(SubSeq(items, 1, Len(items) - 1)), last[1], last[2])

\* The module variables and what onMessage does to the outside.
Page ==
  [histogramData |-> histogramData, shotCount |-> shotCount,
   showEstimates |-> showEstimates, renders |-> renders, logged |-> logged]

SetPage(P) ==
  /\ histogramData' = P.histogramData
  /\ shotCount' = P.shotCount
  /\ showEstimates' = P.showEstimates
  /\ renders' = P.renders
  /\ logged' = P.logged

\* onMessage: render(<App />, document.body).
Render(P) == [P EXCEPT !.renders = @ + 1]

\* As UnknownCommand, leaving the switch by break.
UnknownCommand_Break(P) == Render([P EXCEPT !.logged = "log"])

\* onMessage: the default case of the switch.
UnknownCommand(P) == [P EXCEPT !.logged = "log"]

\* onMessage: case "update".
Update(P, msg) ==
  IF Falsy(msg.buckets) \/ msg.shotCount.type # "number"
  THEN [P EXCEPT !.logged = "error"]
  ELSE IF MapThrows(msg.buckets) THEN P
  ELSE Render([P EXCEPT !.histogramData = NewMap(msg.buckets.items),
                        !.shotCount = msg.shotCount.value])

\* onMessage(event) with event.data = msg.
onMessage(P, msg) ==
  LET P0 == [P EXCEPT !.logged = "none"]
  IN CASE msg.command \in {"absent", ""} -> [P0 EXCEPT !.logged = "error"]
       [] msg.command = "update" -> Update(P0, msg)
       [] msg.command = "estimate" -> Render([P0 EXCEPT !.showEstimates = TRUE])
       [] OTHER -> UnknownCommand(P0)

Init ==
  /\ state = Ket0
  /\ gates = <<>>
  /\ gateArray = <<>>
  /\ gateQueue = <<>>
  /\ animationCallbackId = 0
  /\ loops = <<>>
  /\ rotations = NewRotations
  /\ trail = <<>>
  /\ qubitQuaternion = Quaternion(IdentityOrientation)
  /\ now = 0
  /\ diagnostics = 0
  /\ hist = NewHist
  /\ lastOp = [op |-> "init", gate |-> "none"]
  /\ histogramData = <<>>
  /\ shotCount = 0
  /\ showEstimates = FALSE
  /\ renders = 0
  /\ logged = "none"
  /\ message = NoMessage

\* BlochSphere.rotate(gate).  The renderer exists: it is created when the
\* component mounts, before a button can be pressed.
Rotate(gate, limit) ==
  /\ IF KnownGate(gate) THEN rotations.count < limit
     ELSE diagnostics < MaxDiag
  /\ LET known == KnownGate(gate)
         newState == RotateState(gate, state)
         R1 == IF known
               THEN RendererRotate(Ren, GateRotation(gate).axis,
                                   GateRotation(gate).angle, now)
               ELSE Ren
         id == rotations.count + 1
     IN /\ SetRen(IF known
                  THEN [R1 EXCEPT
                          !.hist.before = Put(@, id, state),
                          !.hist.after = Put(@, id, newState),
                          !.hist.epochNames = Append(@, gate)]
                  ELSE R1)
        /\ state' = newState
        /\ gateArray' = IF known
                        THEN Append(gateArray, getLaTeX(gate, state, newState))
                        ELSE gateArray
        /\ diagnostics' = IF known THEN diagnostics ELSE diagnostics + 1
        /\ gates' = Append(gates, gate)
  /\ lastOp' = [op |-> "rotate", gate |-> gate]
  /\ UNCHANGED <<now, page>>

\* BlochSphere.reset.
Reset ==
  /\ gates' = <<>>
  /\ gateArray' = <<>>
  /\ state' = vec2(Ket0)
  /\ SetRen([RendererReset(Ren) EXCEPT
               !.hist.epochNames = <<>>,
               !.hist.epochBase = Len(hist.queued)])
  /\ lastOp' = [op |-> "reset", gate |-> "none"]
  /\ UNCHANGED <<now, diagnostics, page>>

\* The host runs the pending frame callback loops[i].
Frame(i) ==
  /\ i \in 1..Len(loops)
  /\ \E R \in {processQueue(Ren, i, now)} : SetRen(R)
  /\ lastOp' = [op |-> "frame", gate |-> "none"]
  /\ UNCHANGED <<state, gates, gateArray, now, diagnostics, page>>

\* The clock advances.  Only processQueue reads it, and only to compare the
\* time since a gate was popped with rotationTimeMs.
Tick ==
  /\ \E i \in 1..Len(loops) :
        /\ loops[i].currentGate # NoGate
        /\ now - loops[i].startTime < rotationTimeMs
  /\ now' = now + TickMs
  /\ lastOp' = [op |-> "tick", gate |-> "none"]
  /\ UNCHANGED <<state, gates, gateArray, gateQueue, animationCallbackId,
                 loops, rotations, trail, qubitQuaternion, diagnostics, hist,
                 page>>

\* The window delivers a message event.
OnMessage(msg) ==
  /\ \E P \in {onMessage(Page, msg)} :
        /\ P.renders <= MaxRenders
        /\ SetPage(P)
  /\ message' = msg
  /\ lastOp' = [op |-> "message", gate |-> "none"]
  /\ UNCHANGED view

AnyFrame == \E i \in 1..Len(loops) : Frame(i)

AnyRotate == \E gate \in GateInputs : Rotate(gate, MaxGates)

ViewRotate == \E gate \in ViewInputs : Rotate(gate, MaxGates)

QueueRotate == \E gate \in QueueInputs : Rotate(gate, MaxQueued)

\* The view under requests for the six gates.
Next == AnyRotate \/ Reset \/ AnyFrame \/ Tick

Spec == Init /\ [][Next]_vars

\* The view under requests for H, for T and for an unknown name.
ViewNext == ViewRotate \/ Reset \/ AnyFrame \/ Tick

ViewSpec == Init /\ [][ViewNext]_vars

\* The animation queue.
QueueNext == QueueRotate \/ Reset \/ AnyFrame \/ Tick

QueueSpec == Init /\ [][QueueNext]_vars

\* The animation queue with no reset, where frame callbacks keep firing and
\* the clock advances.
LiveNext == QueueRotate \/ AnyFrame \/ Tick

LiveSpec == Init /\ [][LiveNext]_vars /\ WF_vars(AnyFrame) /\ WF_vars(Tick)

\* The animation queue with resets, where frame callbacks keep firing and
\* the clock advances.
FairRotate == \E gate \in QueueInputs : Rotate(gate, MaxGates)

FairNext == FairRotate \/ Reset \/ AnyFrame \/ Tick

FairSpec == Init /\ [][FairNext]_vars /\ WF_vars(AnyFrame) /\ WF_vars(Tick)

\* The results page under messages.
MessageNext == \E msg \in Messages : OnMessage(msg)

MessageSpec == Init /\ [][MessageNext]_vars

\* ------------------------------------------------------------------ claims

IsPrefix(p, q) == Len(p) <= Len(q) /\ SubSeq(q, 1, Len(p)) = p

Ids(q) == [k \in 1..Len(q) |-> q[k].id]

ActiveLoops == {i \in 1..Len(loops) : loops[i].currentGate # NoGate}

Running == animationCallbackId # 0

\* C1: gates are popped in the order they were queued, each only after the
\* gate popped before it has had its frame at t = 1; the gates still
\* pending are the queued ones not yet popped, in order, so that no gate is
\* skipped, reordered or animated twice.
C1_FifoOrder ==
  /\ IsPrefix(hist.popped, hist.queued)
  /\ IsPrefix(hist.completed, hist.popped)
  /\ Len(hist.popped) <= Len(hist.completed) + 1
  /\ Ids(gateQueue) = SubSeq(hist.queued, Len(hist.popped) + 1, Len(hist.queued))
  /\ \A j, k \in 1..Len(hist.queued) : hist.queued[j] = hist.queued[k] => j = k

\* Three gates have completed; the third was queued while the first was
\* animating and the second was pending, and both waited in the queue.
C1_Witness ==
  /\ Len(hist.completed) >= 3
  /\ hist.ahead[hist.completed[3]] = 2
  /\ {hist.completed[2], hist.completed[3]} \subseteq hist.waited

\* C2: at most one processQueue closure has a frame callback pending and at
\* most one gate is active, in every reachable state.
C2_OneLoop ==
  /\ Len(loops) <= 1
  /\ Cardinality(ActiveLoops) <= 1
  /\ (Len(loops) = 1) = Running

\* queueGate has just been called while a gate was animating.
C2_Witness ==
  /\ lastOp.op = "rotate"
  /\ KnownGate(lastOp.gate)
  /\ Len(gateQueue) >= 1
  /\ Len(loops) = 1
  /\ ActiveLoops # {}
  /\ loops[1].startTime < now

\* C3: right after reset() no gate is pending and no gate is active.
C3_ResetDiscards ==
  lastOp.op = "reset" => gateQueue = <<>> /\ ActiveLoops = {}

\* C4: right after reset() the state is Ket0, the name history and the
\* equations are empty and the trail has no markers.
C4_ResetState ==
  lastOp.op = "reset" =>
    /\ state = <<cplx(RInt(1), RInt(0)), cplx(RInt(0), RInt(0))>>
    /\ gates = <<>>
    /\ gateArray = <<>>
    /\ trail = <<>>

\* reset() after a gate has completed and while another is animating.
C4_Witness ==
  /\ lastOp.op = "reset"
  /\ Len(hist.completed) >= 1
  /\ ActiveLoops # {}
  /\ hist.epochBase >= 2

\* C5: a request with a name outside {X, Y, Z, S, T, H} leaves the state,
\* the trail and the queue unchanged, enqueues nothing and produces exactly
\* one diagnostic.
C5_UnknownGate ==
  [][(lastOp'.op = "rotate" /\ lastOp'.gate \notin {"X", "Y", "Z", "S", "T", "H"})
       => /\ state' = state
          /\ trail' = trail
          /\ gateQueue' = gateQueue
          /\ hist'.queued = hist.queued
          /\ loops' = loops
          /\ diagnostics' = diagnostics + 1]_vars

\* An unknown name has just been requested while a gate was animating, one
\* was pending and the state was not Ket0.
C5_Witness ==
  /\ lastOp.op = "rotate"
  /\ lastOp.gate = "U"
  /\ diagnostics = 1
  /\ ActiveLoops # {}
  /\ gateQueue # <<>>
  /\ trail # <<>>
  /\ state # Ket0

\* C6: with frames firing, the clock advancing and no reset, every gate
\* passed to queueGate eventually has its frame at t = 1.
C6_EventuallyAnimated ==
  \A id \in 1..MaxQueued :
    (id \in SeqToSet(hist.queued)) ~> (id \in SeqToSet(hist.completed))

\* A gate has just been queued after the last active gate completed and
\* before the closure has seen the empty queue.
C6_Witness ==
  /\ lastOp.op = "rotate"
  /\ Len(hist.completed) >= 1
  /\ Len(gateQueue) = 1
  /\ Len(loops) = 1
  /\ ActiveLoops = {}
  /\ Running

\* C7: a frame that finds no pending and no active gate sets
\* animationCallbackId to 0 and leaves no frame callback pending; and with
\* finitely many gates queued the queue ends up Idle for good.
C7_GoesIdle ==
  /\ [][(lastOp'.op = "frame" /\ Len(loops) = 1 /\ ActiveLoops = {}
           /\ gateQueue = <<>>)
        => (animationCallbackId' = 0 /\ loops' = <<>>)]_vars
  /\ <>[](animationCallbackId = 0 /\ loops = <<>>)

\* A frame has just left the queue Idle after two gates completed, the
\* second of them queued before a reset() and popped after it.
C7_Witness ==
  /\ lastOp.op = "frame"
  /\ animationCallbackId = 0
  /\ loops = <<>>
  /\ Len(hist.completed) >= 2
  /\ hist.epochBase >= 2
  /\ hist.completed[2] \in hist.waited

\* C8: an active gate stays active, with its start time, through every step
\* but a frame at least rotationTimeMs after its pop, which completes it; a
\* newly active gate starts at the time of the frame that popped it.
C8_CompletesDuration ==
  [][/\ \A i \in ActiveLoops :
          \/ i \in 1..Len(loops') /\ loops'[i] = loops[i]
          \/ /\ lastOp'.op = "frame"
             /\ now - loops[i].startTime >= rotationTimeMs
             /\ i \in 1..Len(loops')
             /\ loops'[i].currentGate = NoGate
             /\ hist'.completed = Append(hist.completed, loops[i].currentGate.id)
     /\ \A i \in 1..Len(loops') :
          (loops'[i].currentGate # NoGate /\ i \notin ActiveLoops)
            => /\ loops'[i].startTime = now'
               /\ hist'.popped = Append(hist.popped, loops'[i].currentGate.id)
     /\ Len(hist'.completed) > Len(hist.completed)
          => now' - hist'.poppedAt[hist'.completed[Len(hist'.completed)]]
               >= rotationTimeMs]_vars

\* reset() has just run in the middle of the animation of a gate that had
\* waited in the queue, after a request for an unknown gate.
C8_Witness ==
  /\ lastOp.op = "reset"
  /\ diagnostics >= 1
  /\ \E i \in ActiveLoops :
        /\ loops[i].startTime < now
        /\ now - loops[i].startTime < rotationTimeMs
        /\ loops[i].currentGate.id \in hist.waited

\* The axis, the angle (in units of pi/4) and the matrix of each gate.
C9_Gate(name) ==
  CASE name = "X" -> [axis |-> "X", angle |-> 4, matrix |-> PauliX]
    [] name = "Y" -> [axis |-> "Y", angle |-> 4, matrix |-> PauliY]
    [] name = "Z" -> [axis |-> "Z", angle |-> 4, matrix |-> PauliZ]
    [] name = "S" -> [axis |-> "Z", angle |-> 2, matrix |-> SGate]
    [] name = "T" -> [axis |-> "Z", angle |-> 1, matrix |-> TGate]
    [] name = "H" -> [axis |-> "H", angle |-> 4, matrix |-> Hadamard]

RECURSIVE C9_Product(_, _)
C9_Product(names, n) ==
  IF n = 0 THEN Ket0
  ELSE mulVec2(C9_Gate(names[n]).matrix, C9_Product(names, n - 1))

\* C9: after n recognized requests since the last reset, the state is the
\* product of their n matrices on Ket0 and exactly n gates were enqueued
\* since that reset, in the same order, each with the axis and the angle of
\* its gate.
C9_LockStep ==
  LET n == Len(hist.epochNames)
  IN /\ Len(hist.queued) - hist.epochBase = n
     /\ \A k \in 1..n :
          LET g == hist.desc[hist.queued[hist.epochBase + k]]
          IN /\ g.axis = C9_Gate(hist.epochNames[k]).axis
             /\ g.angle = C9_Gate(hist.epochNames[k]).angle
     /\ state = C9_Product(hist.epochNames, n)

\* H then S have been requested.
C9_Witness ==
  /\ hist.epochNames = <<"H", "S">>
  /\ Len(gateQueue) = 1

Exact(q) == q.from = q.to

BlochPoint(q) == MatVec3(OrientationMatrix(q.to), NorthPole)

C11_NameHistory ==
  /\ Len(gates) = Len(hist.queued) - hist.epochBase
  /\ gates = hist.epochNames

\* C12: a recognized request while the queue is running appends its gate at
\* the tail of gateQueue and changes neither the closure (active gate and
\* start time), nor the clock, nor the trail, nor the marker, nor the
\* orientation and the markers the rotation engine holds.
C12_QueueGateFrame ==
  [][(lastOp'.op = "rotate" /\ KnownGate(lastOp'.gate) /\ Running)
       => /\ Len(gateQueue') = Len(gateQueue) + 1
          /\ SubSeq(gateQueue', 1, Len(gateQueue)) = gateQueue
          /\ gateQueue'[Len(gateQueue')] =
                [id |-> rotations.count + 1,
                 axis |-> C9_Gate(lastOp'.gate).axis,
                 angle |-> C9_Gate(lastOp'.gate).angle]
          /\ loops' = loops
          /\ animationCallbackId' = animationCallbackId
          /\ now' = now
          /\ trail' = trail
          /\ qubitQuaternion' = qubitQuaternion
          /\ rotations'.currPosition = rotations.currPosition
          /\ rotations'.refs = rotations.refs
          /\ hist'.popped = hist.popped
          /\ hist'.completed = hist.completed]_vars

\* A gate has just been queued behind a pending gate while another gate was
\* in the middle of its animation.
C12_Witness ==
  /\ lastOp.op = "rotate"
  /\ KnownGate(lastOp.gate)
  /\ Len(gateQueue) = 2
  /\ \E i \in ActiveLoops :
        /\ loops[i].startTime < now
        /\ now - loops[i].startTime < rotationTimeMs
  /\ trail # <<>>

\* C15: with animationCallbackId = 0 no gate is pending and none is active;
\* and whenever a gate is pending or active a frame callback is pending.
C15_NoStrandedGate ==
  /\ animationCallbackId = 0 => (gateQueue = <<>> /\ ActiveLoops = {})
  /\ (gateQueue # <<>> \/ ActiveLoops # {}) => (Running /\ Len(loops) = 1)

\* reset() has just run with one gate active and another pending.
C15_Witness ==
  /\ lastOp.op = "reset"
  /\ gateQueue # <<>>
  /\ ActiveLoops # {}
  /\ Running

\* C13: a frame with an active gate queries the rotation engine for that
\* gate, at a t in [0, 1] not below the t of the gate's frame before; a
\* frame with no active gate and a pending one pops it and queries for it;
\* the frame that queries with t = 1 is the first to do so for its gate and
\* clears the active gate, and a frame with t < 1 keeps it.
C13_FrameQueries ==
  [][lastOp'.op = "frame" =>
       /\ \A i \in ActiveLoops :
            LET id == loops[i].currentGate.id
            IN /\ hist'.lastT = Put(hist.lastT, id, hist'.lastT[id])
               /\ hist'.lastT[id] \in 0..1000
               /\ hist'.lastT[id] >= hist.lastT[id]
               /\ hist'.popped = hist.popped
               /\ IF hist'.lastT[id] = 1000
                  THEN /\ hist.lastT[id] < 1000
                       /\ loops'[i].currentGate = NoGate
                       /\ hist'.completed = Append(hist.completed, id)
                  ELSE /\ loops'[i] = loops[i]
                       /\ hist'.completed = hist.completed
       /\ (ActiveLoops = {} /\ gateQueue # <<>> /\ loops # <<>>) =>
            LET id == Head(gateQueue).id
            IN /\ hist'.popped = Append(hist.popped, id)
               /\ gateQueue' = Tail(gateQueue)
               /\ id \notin DOMAIN hist.lastT
               /\ hist'.lastT = Put(hist.lastT, id, hist'.lastT[id])
               /\ hist'.lastT[id] \in 0..999
               /\ loops'[1].currentGate = Head(gateQueue)]_vars

\* A gate that waited in the queue has just had its frame with t = 1, which
\* cleared it and left its markers on the trail, after a reset() that ran
\* while it was pending or active.
C13_Witness ==
  /\ lastOp.op = "frame"
  /\ Len(hist.completed) >= 2
  /\ hist.lastT[hist.completed[2]] = 1000
  /\ hist.completed[2] \in hist.waited
  /\ hist.epochBase >= 2
  /\ ActiveLoops = {}
  /\ Running
  /\ \E k \in 1..PathSteps : <<hist.completed[2], k>> \in SeqToSet(trail)

\* The keyframes of the path returned for progress t of the gate id.
C14_Path(id, t) == {<<id, k>> : k \in 1..((t * PathSteps) \div 1000)}

\* C14: no marker is on the trail twice and the markers recorded on
\* keyframes are those of the trail; a frame appends exactly one marker for
\* every keyframe of the returned path that had none, in path order, and
\* none for the others; and a step that is no reset leaves the markers
\* already on the trail in place.
C14_TrailGrowth ==
  /\ [](/\ \A j, k \in 1..Len(trail) : trail[j] = trail[k] => j = k
        /\ rotations.refs = SeqToSet(trail))
  /\ [][lastOp'.op # "reset" => IsPrefix(trail, trail')]_vars
  /\ [][(lastOp'.op = "frame" /\ hist'.popped # <<>> /\ animationCallbackId' # 0) =>
          LET id == hist'.popped[Len(hist'.popped)]
              path == C14_Path(id, hist'.lastT[id])
              fresh == path \ rotations.refs
              added == SubSeq(trail', Len(trail) + 1, Len(trail'))
          IN /\ Len(added) = Cardinality(fresh)
             /\ SeqToSet(added) = fresh
             /\ \A j, k \in 1..Len(added) :
                  j < k => added[j][2] < added[k][2]
             /\ rotations'.refs = rotations.refs \cup fresh]_vars

\* A frame has just run for a gate in the middle of its animation that has
\* several markers on the trail, behind the markers of a completed gate.
C14_Witness ==
  /\ lastOp.op = "frame"
  /\ Len(hist.completed) >= 1
  /\ \E i \in ActiveLoops :
        LET id == loops[i].currentGate.id
        IN /\ hist.lastT[id] < 1000
           /\ Cardinality({k \in 1..PathSteps : <<id, k>> \in SeqToSet(trail)}) >= 2
           /\ <<hist.completed[1], PathSteps>> \in SeqToSet(trail)

\* A well-formed update: buckets is an array of pairs and shotCount is a
\* number.
C16_WellFormed(msg) ==
  /\ msg.command = "update"
  /\ msg.buckets.type = "object"
  /\ msg.shotCount.type = "number"

\* The map of an array of pairs: every label of the array, with the count of
\* the last pair that has it.
C16_Data(items) ==
  [l \in {items[k][1] : k \in DOMAIN items} |->
     items[CHOOSE k \in DOMAIN items :
             /\ items[k][1] = l
             /\ \A j \in DOMAIN items : items[j][1] = l => j <= k][2]]

\* C16: a well-formed update replaces histogramData and shotCount and
\* renders once; estimate sets showEstimates and renders once; any other
\* message changes none of the three variables and renders nothing; and
\* showEstimates, once true, stays true.
C16_OnMessage ==
  /\ [][lastOp'.op = "message" =>
          IF C16_WellFormed(message')
          THEN /\ histogramData' = C16_Data(message'.buckets.items)
               /\ shotCount' = message'.shotCount.value
               /\ showEstimates' = showEstimates
               /\ renders' = renders + 1
          ELSE IF message'.command = "estimate"
          THEN /\ showEstimates'
               /\ histogramData' = histogramData
               /\ shotCount' = shotCount
               /\ renders' = renders + 1
          ELSE /\ histogramData' = histogramData
               /\ shotCount' = shotCount
               /\ showEstimates' = showEstimates
               /\ renders' = renders]_vars
  /\ [][showEstimates => showEstimates']_vars

\* An update whose shotCount is no number has just been absorbed after an
\* update and an estimate had set the three variables.
C16_Witness ==
  /\ lastOp.op = "message"
  /\ message.command = "update"
  /\ message.buckets.type = "object"
  /\ message.shotCount.type = "string"
  /\ logged = "error"
  /\ showEstimates
  /\ shotCount = 2
  /\ DOMAIN histogramData = {"0", "1"}
  /\ renders = 2

====
